---- MODULE Spec2Model ----
(***************************************************************************)
(* Model of cartographer_ros::SensorBridge (sensor_bridge.cc).             *)
(*                                                                         *)
(* Time.  cartographer's common::Time counts ticks of 100 ns.  ROS stamps  *)
(* and the per-point relative times are finer than a tick; the model       *)
(* measures them in "units", UnitsPerTick of them to a tick, so that the   *)
(* conversions FromRos (round to the nearest tick) and FromSeconds         *)
(* (truncate towards zero) lose what they lose in the program.  Per-point  *)
(* times are exact integers in the model: float rounding of the            *)
(* subtraction is not represented.                                         *)
(*                                                                         *)
(* Collaborators.  TfBridge::LookupToTracking is an external service: its  *)
(* result is a nondeterministic choice among LookupResults.  The           *)
(* trajectory builder is the log added_sensor_data of the AddSensorData    *)
(* calls made by the handler that is returning.  A failed CHECK terminates *)
(* the process: aborted becomes TRUE and no handler runs afterwards.       *)
(* CheckNoLeadingSlash only rewrites the frame name given to the lookup,   *)
(* whose result is free anyway; frame names are left out.                  *)
(***************************************************************************)
EXTENDS Integers, Sequences, FiniteSets, TLC

----------------------------------------------------------------------------
(* Bounds of the model *)
UnitsPerTick == 2
MaxStamp == 2
MaxScanTime == 1
MaxSubdivisions == 3
\* Spec runs all the handlers on short scans and clouds; SpecScan and
\* SpecCloud run the handlers of one kind of message on longer ones
MaxScanPoints == 2
MaxCloudPoints == 1
MaxLongScanPoints == 3
MaxLongCloudPoints == 2

SensorIds == {"scan_a", "scan_b"}
Stamps == 0..MaxStamp
ScanTimes == 0..MaxScanTime
\* relative times of scan points: a tick and a unit before the scan time, at
\* it, and after it
RelTimes == {-UnitsPerTick, -1, 0, 1}
\* time fields of cloud points: none, a unit and a tick
CloudTimes == {0, 1, UnitsPerTick}
Latitudes == {10, 20}
Longitudes == {30}
Altitudes == {0}
SensorTypes == {"ouster", "velodyne", "robosense", "other"}
PointFlags == {"finite", "nan", "inf"}

Null == "nullptr"
\* an optional or a unique_ptr: the empty sequence, or <<value>>
NoValue == <<>>
Some(value) == <<value>>
\* a resolved sensor-to-tracking transform, by the norm of its translation
Transforms == {"colocated", "displaced"}
LookupResults == {Null} \cup Transforms

STATUS_NO_FIX == -1
\* the status values of the messages handled: no fix, and a fix
Statuses == {STATUS_NO_FIX, 0}

----------------------------------------------------------------------------
VARIABLES
  num_subdivisions_per_laser_scan_,
  sensor_to_previous_subdivision_time_,  \* map: a function on the keys present
  ecef_to_local_frame_,                  \* NoValue or the local frame
  aborted,                               \* a CHECK failed (or the process crashed)
  op,                                    \* the handler that ran last and its arguments
  lookups,                               \* LookupToTracking calls of that handler, in order
  rangefinder_calls,                     \* HandleRangefinder calls of that handler, in order
  added_sensor_data,                     \* AddSensorData calls of that handler, in order
  handed_time,                           \* history: per sensor, the last time HandleLaserScan handed to HandleRangefinder
  first_fix                              \* history: latitude/longitude of the first message with a fix

vars == <<num_subdivisions_per_laser_scan_, sensor_to_previous_subdivision_time_,
          ecef_to_local_frame_, aborted, op, lookups, rangefinder_calls,
          added_sensor_data, handed_time, first_fix>>

bridge_state == <<num_subdivisions_per_laser_scan_,
                  sensor_to_previous_subdivision_time_, ecef_to_local_frame_>>

----------------------------------------------------------------------------
(* Conversions *)

\* integer division truncating towards zero, as C++ does
TruncDiv(a, b) == IF a >= 0 THEN a \div b ELSE -((-a) \div b)

\* FromRos: (nsec + 50) / 100 ticks, i.e. rounding to the nearest tick
FromRos(stamp) == (stamp + UnitsPerTick \div 2) \div UnitsPerTick

\* common::FromSeconds: duration_cast to ticks, truncating towards zero
FromSeconds(seconds) == TruncDiv(seconds, UnitsPerTick)

ComputeLocalFrameFromLatLong(latitude, longitude) ==
  [lat |-> latitude, long |-> longitude]

LatLongAltToEcef(latitude, longitude, altitude) ==
  <<latitude, longitude, altitude>>

----------------------------------------------------------------------------
\* no handler is running
Idle == [name |-> "idle"]

Init ==
  /\ num_subdivisions_per_laser_scan_ \in 1..MaxSubdivisions
  /\ sensor_to_previous_subdivision_time_ = <<>>
  /\ ecef_to_local_frame_ = NoValue
  /\ aborted = FALSE
  /\ op = Idle
  /\ lookups = <<>>
  /\ rangefinder_calls = <<>>
  /\ added_sensor_data = <<>>
  /\ handed_time = [s \in SensorIds |-> NoValue]
  /\ first_fix = NoValue

----------------------------------------------------------------------------
(* Odometry *)

\* the OdometryData, or Null when the frame does not resolve
ToOdometryData(msg, sensor_to_tracking) ==
  IF sensor_to_tracking = Null
  THEN NoValue
  ELSE Some([kind |-> "OdometryData", time |-> FromRos(msg.stamp),
             tf |-> sensor_to_tracking])

HandleOdometryMessage ==
  /\ ~aborted /\ op = Idle
  /\ \E sensor_id \in SensorIds, stamp \in Stamps, tf \in LookupResults :
       LET msg == [stamp |-> stamp]
           odometry_data == ToOdometryData(msg, tf)
       IN /\ op' = [name |-> "HandleOdometryMessage", sensor_id |-> sensor_id,
                    msg |-> msg]
          /\ lookups' = <<[time |-> FromRos(stamp), result |-> tf]>>
          /\ added_sensor_data' =
               IF odometry_data # NoValue
               THEN <<[sensor_id |-> sensor_id, data |-> odometry_data[1]]>>
               ELSE <<>>
  /\ rangefinder_calls' = <<>>
  /\ UNCHANGED <<bridge_state, aborted, handed_time, first_fix>>

----------------------------------------------------------------------------
(* GPS *)

\* mutant: the frame is computed anew from every message with a fix
LocalFrameAfterFix_Always(frame, latitude, longitude) ==
  Some(ComputeLocalFrameFromLatLong(latitude, longitude))

\* ecef_to_local_frame_ after a message with a fix (lines 97-102)
LocalFrameAfterFix(frame, latitude, longitude) ==
  IF frame = NoValue
  THEN Some(ComputeLocalFrameFromLatLong(latitude, longitude))
  ELSE frame

HandleNavSatFixMessage ==
  /\ ~aborted /\ op = Idle
  /\ \E sensor_id \in SensorIds, stamp \in Stamps,
        status \in Statuses,
        latitude \in Latitudes, longitude \in Longitudes,
        altitude \in Altitudes :
       LET msg == [stamp |-> stamp, status |-> status, latitude |-> latitude,
                   longitude |-> longitude, altitude |-> altitude]
           time == FromRos(stamp)
           frame == LocalFrameAfterFix(ecef_to_local_frame_, latitude, longitude)
       IN /\ op' = [name |-> "HandleNavSatFixMessage", sensor_id |-> sensor_id,
                    msg |-> msg]
          /\ IF status = STATUS_NO_FIX
             THEN /\ added_sensor_data' =
                       <<[sensor_id |-> sensor_id,
                          data |-> [kind |-> "FixedFramePoseData",
                                    time |-> time, pose |-> NoValue]]>>
                  /\ UNCHANGED <<ecef_to_local_frame_, first_fix>>
             ELSE /\ ecef_to_local_frame_' = frame
                  /\ added_sensor_data' =
                       <<[sensor_id |-> sensor_id,
                          data |-> [kind |-> "FixedFramePoseData",
                                    time |-> time,
                                    pose |-> Some([frame |-> frame[1],
                                                   ecef |-> LatLongAltToEcef(
                                                     latitude, longitude, altitude)])]]>>
                  /\ first_fix' = IF first_fix = NoValue
                                  THEN Some([lat |-> latitude, long |-> longitude])
                                  ELSE first_fix
  /\ lookups' = <<>>
  /\ rangefinder_calls' = <<>>
  /\ UNCHANGED <<num_subdivisions_per_laser_scan_,
                 sensor_to_previous_subdivision_time_, aborted, handed_time>>

----------------------------------------------------------------------------
(* Landmarks *)

HandleLandmarkMessage ==
  /\ ~aborted /\ op = Idle
  /\ \E sensor_id \in SensorIds, stamp \in Stamps :
       LET msg == [stamp |-> stamp]
       IN /\ op' = [name |-> "HandleLandmarkMessage", sensor_id |-> sensor_id,
                    msg |-> msg]
          /\ added_sensor_data' =
               <<[sensor_id |-> sensor_id,
                  data |-> [kind |-> "LandmarkData", time |-> FromRos(stamp)]]>>
  /\ lookups' = <<>>
  /\ rangefinder_calls' = <<>>
  /\ UNCHANGED <<bridge_state, aborted, handed_time, first_fix>>

----------------------------------------------------------------------------
(* IMU *)

\* mutant: the frame is looked up before the covariances are checked
ToImuData_LookupFirst(msg, lookup) ==
  LET time == FromRos(msg.stamp)
      looked == <<[time |-> time, result |-> lookup]>>
  IN IF lookup = Null
     THEN [fatal |-> FALSE, lookups |-> looked, data |-> NoValue]
     ELSE IF msg.linear_acceleration_covariance0 = -1
               \/ msg.angular_velocity_covariance0 = -1
               \/ lookup # "colocated"
     THEN [fatal |-> TRUE, lookups |-> looked, data |-> NoValue]
     ELSE [fatal |-> FALSE, lookups |-> looked,
           data |-> Some([kind |-> "ImuData", time |-> time, tf |-> lookup])]

\* Outcome of ToImuData: [fatal, lookups, data].  lookup is the result the
\* transform service would give; it is consulted only after both CHECK_NEs.
ToImuData(msg, lookup) ==
  IF msg.linear_acceleration_covariance0 = -1
  THEN [fatal |-> TRUE, lookups |-> <<>>, data |-> NoValue]
  ELSE IF msg.angular_velocity_covariance0 = -1
  THEN [fatal |-> TRUE, lookups |-> <<>>, data |-> NoValue]
  ELSE LET time == FromRos(msg.stamp)
           looked == <<[time |-> time, result |-> lookup]>>
       IN IF lookup = Null
          THEN [fatal |-> FALSE, lookups |-> looked, data |-> NoValue]
          ELSE IF lookup # "colocated"
          THEN [fatal |-> TRUE, lookups |-> looked, data |-> NoValue]
          ELSE [fatal |-> FALSE, lookups |-> looked,
                data |-> Some([kind |-> "ImuData", time |-> time,
                               tf |-> lookup])]

HandleImuMessage ==
  /\ ~aborted /\ op = Idle
  /\ \E sensor_id \in SensorIds, stamp \in Stamps,
        lin \in {-1, 0}, ang \in {-1, 0}, lookup \in LookupResults :
       LET msg == [stamp |-> stamp, linear_acceleration_covariance0 |-> lin,
                   angular_velocity_covariance0 |-> ang]
           r == ToImuData(msg, lookup)
       IN /\ op' = [name |-> "HandleImuMessage", sensor_id |-> sensor_id,
                    msg |-> msg, lookup |-> lookup]
          /\ lookups' = r.lookups
          /\ aborted' = r.fatal
          /\ added_sensor_data' =
               IF ~r.fatal /\ r.data # NoValue
               THEN <<[sensor_id |-> sensor_id, data |-> r.data[1]]>>
               ELSE <<>>
  /\ rangefinder_calls' = <<>>
  /\ UNCHANGED <<bridge_state, handed_time, first_fix>>

----------------------------------------------------------------------------
(* Range finders *)

\* mutant: the record is forwarded whether or not the frame resolved
HandleRangefinder_Unchecked(sensor_id, time, ranges, sensor_to_tracking) ==
  <<[sensor_id |-> sensor_id,
     data |-> [kind |-> "TimedPointCloudData", time |-> time,
               tf |-> sensor_to_tracking, ranges |-> ranges]]>>

\* The AddSensorData calls of one HandleRangefinder call: one when the frame
\* resolves, none otherwise.  TransformTimedPointCloud moves the points and
\* keeps their times; the record keeps the transform it was given.
HandleRangefinder(sensor_id, time, ranges, sensor_to_tracking) ==
  IF sensor_to_tracking # Null
  THEN <<[sensor_id |-> sensor_id,
          data |-> [kind |-> "TimedPointCloudData", time |-> time,
                    tf |-> sensor_to_tracking, ranges |-> ranges]]>>
  ELSE <<>>

\* HandleRangefinder for each call of calls in turn, call k with the lookup
\* result results[k]
RECURSIVE ForwardAll(_, _)
ForwardAll(calls, results) ==
  IF calls = <<>>
  THEN <<>>
  ELSE HandleRangefinder(calls[1].sensor_id, calls[1].time, calls[1].ranges,
                         results[1])
         \o ForwardAll(Tail(calls), Tail(results))

LookupLog(calls, results) ==
  [k \in 1..Len(calls) |-> [time |-> calls[k].time, result |-> results[k]]]

----------------------------------------------------------------------------
(* Laser scans *)

\* A point is [p, t]: p stands for its coordinates and intensity, t is its
\* time relative to the scan time.  The scans handled give point k the
\* coordinates k.
ScanPoints(ts) == [k \in 1..Len(ts) |-> [p |-> k, t |-> ts[k]]]

ScansOf(times, longest) ==
  UNION {{ScanPoints(ts) : ts \in [1..n -> times]} : n \in 0..longest}

Scans == ScansOf(RelTimes, MaxScanPoints)
LongScans == ScansOf(RelTimes, MaxLongScanPoints)

StartIndex(size, i, n) == (size * i) \div n
\* mutant: the end index adds a rounded slice length to the start index
EndIndex_FixedLength(size, i, n) == (size * i) \div n + size \div n

EndIndex(size, i, n) == (size * (i + 1)) \div n

\* mutant: the comparison lets an equal time through
IsOutOfOrder_Strict(previous, sensor_id, subdivision_time) ==
  /\ sensor_id \in DOMAIN previous
  /\ previous[sensor_id] > subdivision_time

\* it != end() && it->second >= subdivision_time
IsOutOfOrder(previous, sensor_id, subdivision_time) ==
  /\ sensor_id \in DOMAIN previous
  /\ previous[sensor_id] >= subdivision_time

\* mutant: the map is replaced by one holding this sensor only
RecordSubdivisionTime_Alone(previous, sensor_id, subdivision_time) ==
  [s \in {sensor_id} |-> subdivision_time]

\* sensor_to_previous_subdivision_time_[sensor_id] = subdivision_time
RecordSubdivisionTime(previous, sensor_id, subdivision_time) ==
  [s \in DOMAIN previous \cup {sensor_id} |->
     IF s = sensor_id THEN subdivision_time ELSE previous[s]]

\* mutant: the times are re-based to the first point of the subdivision
Rebase_ToFirst(subdivision, time_to_subdivision_end) ==
  [k \in 1..Len(subdivision) |->
     [subdivision[k] EXCEPT !.t = @ - subdivision[1].t]]

\* point[3] -= time_to_subdivision_end, for every point of the subdivision
Rebase(subdivision, time_to_subdivision_end) ==
  [k \in 1..Len(subdivision) |->
     [subdivision[k] EXCEPT !.t = @ - time_to_subdivision_end]]

\* The loop of HandleLaserScan from subdivision i on: whether a CHECK
\* stopped it, and the map and the HandleRangefinder calls it ends with.
RECURSIVE SubdivisionLoop(_, _, _, _, _, _, _)
SubdivisionLoop(i, n, sensor_id, time, points, previous, calls) ==
  IF i = n
  THEN [fatal |-> FALSE, previous |-> previous, calls |-> calls]
  ELSE LET start_index == StartIndex(Len(points), i, n)
           end_index == EndIndex(Len(points), i, n)
           subdivision == SubSeq(points, start_index + 1, end_index)
       IN IF start_index = end_index
          THEN SubdivisionLoop(i + 1, n, sensor_id, time, points, previous, calls)
          ELSE LET time_to_subdivision_end == subdivision[Len(subdivision)].t
                   subdivision_time == time + FromSeconds(time_to_subdivision_end)
                   recorded == RecordSubdivisionTime(previous, sensor_id,
                                                     subdivision_time)
                   rebased == Rebase(subdivision, time_to_subdivision_end)
               IN IF IsOutOfOrder(previous, sensor_id, subdivision_time)
                  THEN SubdivisionLoop(i + 1, n, sensor_id, time, points,
                                       previous, calls)
                  ELSE IF rebased[Len(rebased)].t # 0
                  THEN [fatal |-> TRUE, previous |-> recorded, calls |-> calls]
                  ELSE SubdivisionLoop(i + 1, n, sensor_id, time, points, recorded,
                         Append(calls,
                                [sensor_id |-> sensor_id, time |-> subdivision_time,
                                 ranges |-> rebased]))

\* Outcome of HandleLaserScan before the lookups: [fatal, previous, calls]
HandleLaserScan(sensor_id, time, points, previous, n) ==
  IF points = <<>>
  THEN [fatal |-> FALSE, previous |-> previous, calls |-> <<>>]
  ELSE IF ~(points[Len(points)].t <= 0)
  THEN [fatal |-> TRUE, previous |-> previous, calls |-> <<>>]
  ELSE SubdivisionLoop(0, n, sensor_id, time, points, previous, <<>>)

\* HandleLaserScan on (sensor_id, time, points), and HandleRangefinder for
\* each subdivision it hands on
LaserScanCall(sensor_id, time, points) ==
  LET r == HandleLaserScan(sensor_id, time, points,
                           sensor_to_previous_subdivision_time_,
                           num_subdivisions_per_laser_scan_)
  IN /\ op' = [name |-> "HandleLaserScan", sensor_id |-> sensor_id,
               time |-> time, points |-> points]
     /\ aborted' = r.fatal
     /\ sensor_to_previous_subdivision_time_' = r.previous
     /\ rangefinder_calls' = r.calls
     /\ handed_time' =
          IF r.calls = <<>>
          THEN handed_time
          ELSE [handed_time EXCEPT
                  ![sensor_id] = Some(r.calls[Len(r.calls)].time)]
     /\ \E results \in [1..Len(r.calls) -> LookupResults] :
          /\ lookups' = LookupLog(r.calls, results)
          /\ added_sensor_data' = ForwardAll(r.calls, results)
     /\ UNCHANGED <<num_subdivisions_per_laser_scan_, ecef_to_local_frame_,
                    first_fix>>

\* ToPointCloudWithIntensities yields (point_cloud, time); HandleLaserScan
\* takes them from there
HandleLaserScanMessageOf(scans) ==
  /\ ~aborted /\ op = Idle
  /\ \E sensor_id \in SensorIds, time \in ScanTimes, points \in scans :
       LaserScanCall(sensor_id, time, points)

HandleMultiEchoLaserScanMessageOf(scans) ==
  /\ ~aborted /\ op = Idle
  /\ \E sensor_id \in SensorIds, time \in ScanTimes, points \in scans :
       LaserScanCall(sensor_id, time, points)

HandleLaserScanMessage == HandleLaserScanMessageOf(Scans)

HandleMultiEchoLaserScanMessage == HandleMultiEchoLaserScanMessageOf(Scans)

----------------------------------------------------------------------------
(* Point clouds *)

\* A cloud point is [p, flag, t]: flag tells what isnan/isinf say of it, t
\* is its time field (t, time or timestamp, by sensor type).
CloudPoints(fs, ts) ==
  [k \in 1..Len(fs) |-> [p |-> k, flag |-> fs[k], t |-> ts[k]]]

CloudsOf(times, longest) ==
  UNION {{CloudPoints(fs, ts) : fs \in [1..n -> PointFlags],
                                ts \in [1..n -> times]} :
         n \in 0..longest}

Clouds == CloudsOf(CloudTimes, MaxCloudPoints)
LongClouds == CloudsOf(CloudTimes, MaxLongCloudPoints)

\* if(isnan(point) || isinf(point)) continue;
IsDropped(point) == point.flag = "nan" \/ point.flag = "inf"

\* the points kept, in order, each with the time point_time gives it
RECURSIVE KeptPoints(_, _, _)
KeptPoints(cloud, sensor_type, rel_time_last) ==
  IF cloud = <<>>
  THEN <<>>
  ELSE LET point == cloud[1]
           rest == KeptPoints(Tail(cloud), sensor_type, rel_time_last)
       IN IF IsDropped(point)
          THEN rest
          ELSE <<[p |-> point.p,
                  t |-> IF sensor_type \in {"ouster", "velodyne", "robosense"}
                        THEN point.t - rel_time_last
                        ELSE 0]>> \o rest

\* mutant: the robosense stamp is moved to the last point as well
PointCloudStamp_AllTimed(stamp, sensor_type, rel_time_last) ==
  IF sensor_type \in {"ouster", "velodyne", "robosense"}
  THEN FromRos(stamp) + FromSeconds(rel_time_last)
  ELSE FromRos(stamp)

\* point_cloud_stamp
PointCloudStamp(stamp, sensor_type, rel_time_last) ==
  IF sensor_type \in {"ouster", "velodyne"}
  THEN FromRos(stamp) + FromSeconds(rel_time_last)
  ELSE FromRos(stamp)

\* points.back() is read for the three timed sensor types, whatever the cloud
ReadsBack(sensor_type) == sensor_type \in {"ouster", "velodyne", "robosense"}

\* The handler on one message.  back() of an empty vector is undefined: the
\* process crashes, or goes on with whatever value it read.
PointCloud2Call(sensor_id, stamp, cloud, sensor_type) ==
  LET undefined == ReadsBack(sensor_type) /\ cloud = <<>>
      Handled(rel_time_last) ==
        LET call == [sensor_id |-> sensor_id,
                     time |-> PointCloudStamp(stamp, sensor_type, rel_time_last),
                     ranges |-> KeptPoints(cloud, sensor_type, rel_time_last)]
        IN /\ aborted' = FALSE
           /\ rangefinder_calls' = <<call>>
           /\ \E lookup \in LookupResults :
                /\ lookups' = LookupLog(<<call>>, <<lookup>>)
                /\ added_sensor_data' = ForwardAll(<<call>>, <<lookup>>)
  IN /\ op' = [name |-> "HandlePointCloud2Message", sensor_id |-> sensor_id,
               msg |-> [stamp |-> stamp, points |-> cloud],
               sensor_type |-> sensor_type]
     /\ IF undefined
        THEN \/ /\ aborted' = TRUE
                /\ rangefinder_calls' = <<>>
                /\ lookups' = <<>>
                /\ added_sensor_data' = <<>>
             \/ \E garbage \in CloudTimes : Handled(garbage)
        ELSE Handled(IF ReadsBack(sensor_type) THEN cloud[Len(cloud)].t ELSE 0)
     /\ UNCHANGED <<bridge_state, handed_time, first_fix>>

HandlePointCloud2MessageOf(clouds) ==
  /\ ~aborted /\ op = Idle
  /\ \E sensor_id \in SensorIds, stamp \in Stamps, cloud \in clouds,
        sensor_type \in SensorTypes :
       PointCloud2Call(sensor_id, stamp, cloud, sensor_type)

HandlePointCloud2Message == HandlePointCloud2MessageOf(Clouds)

----------------------------------------------------------------------------
\* The handler returns to the middleware, which calls the next one only
\* then; what was recorded of the call is dropped.  A process that aborted
\* does not return.
Return ==
  /\ ~aborted /\ op # Idle
  /\ op' = Idle
  /\ lookups' = <<>>
  /\ rangefinder_calls' = <<>>
  /\ added_sensor_data' = <<>>
  /\ UNCHANGED <<bridge_state, aborted, handed_time, first_fix>>

----------------------------------------------------------------------------
Next ==
  \/ HandleOdometryMessage
  \/ HandleNavSatFixMessage
  \/ HandleLandmarkMessage
  \/ HandleImuMessage
  \/ HandleLaserScanMessage
  \/ HandleMultiEchoLaserScanMessage
  \/ HandlePointCloud2Message
  \/ Return

Spec == Init /\ [][Next]_vars

\* the laser scan handlers alone, on the longer scans
HandleLongLaserScanMessage == HandleLaserScanMessageOf(LongScans)

HandleLongMultiEchoLaserScanMessage == HandleMultiEchoLaserScanMessageOf(LongScans)

NextScan ==
  \/ HandleLongLaserScanMessage
  \/ HandleLongMultiEchoLaserScanMessage
  \/ Return

SpecScan == Init /\ [][NextScan]_vars

\* the point cloud handler alone, on the longer clouds
HandleLongPointCloud2Message == HandlePointCloud2MessageOf(LongClouds)

NextCloud ==
  \/ HandleLongPointCloud2Message
  \/ Return

SpecCloud == Init /\ [][NextCloud]_vars

----------------------------------------------------------------------------
(* Properties *)

LaserScanHandled == op.name = "HandleLaserScan"
LaserScanRuns == op = Idle /\ op'.name = "HandleLaserScan"

\* the entry of the map for sensor s, as an optional
Recorded(previous, s) == IF s \in DOMAIN previous THEN Some(previous[s]) ELSE NoValue

\* the subdivisions of a scan of the given points that are not empty
NonEmptySlices(points, n) ==
  {i \in 0..(n - 1) : StartIndex(Len(points), i, n) # EndIndex(Len(points), i, n)}

\* the subdivision time of subdivision i
SliceTime(time, points, i, n) ==
  time + FromSeconds(points[EndIndex(Len(points), i, n)].t)

\* call hands on subdivision i of points
HandsSlice(call, points, i, n) ==
  /\ Len(call.ranges) = EndIndex(Len(points), i, n) - StartIndex(Len(points), i, n)
  /\ \A j \in 1..Len(call.ranges) :
       call.ranges[j].p = StartIndex(Len(points), i, n) + j

StrictlyIncreasing(times) ==
  \A k \in 1..(Len(times) - 1) : times[k] < times[k + 1]

TimesOf(calls) == [k \in 1..Len(calls) |-> calls[k].time]
DataTimesOf(added) == [k \in 1..Len(added) |-> added[k].data.time]

\* C1: per sensor_id, the subdivision times HandleLaserScan hands to
\* HandleRangefinder, and those that reach the trajectory builder, are
\* strictly increasing over the calls (handed_time is the last time handed on
\* before this call); a subdivision is handed on exactly when its time is
\* greater than the time recorded for its own sensor_id and than the times of
\* the earlier subdivisions of the scan, and is skipped otherwise; the entries
\* of the other sensor_ids are not changed.
C1_OutOfOrderSubdivisionsRejectedPerSensor ==
  [][LaserScanRuns =>
       LET s == op'.sensor_id
           points == op'.points
           n == num_subdivisions_per_laser_scan_
           calls == rangefinder_calls'
           before == Recorded(sensor_to_previous_subdivision_time_, s)
       IN /\ \A k \in 1..Len(calls) : calls[k].sensor_id = s
          /\ StrictlyIncreasing(handed_time[s] \o TimesOf(calls))
          /\ StrictlyIncreasing(handed_time[s] \o DataTimesOf(added_sensor_data'))
          /\ \A k \in 1..Len(added_sensor_data') :
               \E c \in 1..Len(calls) :
                 added_sensor_data'[k].data.time = calls[c].time
          /\ ~aborted' =>
               \A i \in NonEmptySlices(points, n) :
                 (\E k \in 1..Len(calls) : HandsSlice(calls[k], points, i, n))
                   <=> /\ before # NoValue =>
                            before[1] < SliceTime(op'.time, points, i, n)
                       /\ \A j \in NonEmptySlices(points, n) :
                            j < i => SliceTime(op'.time, points, j, n)
                                       < SliceTime(op'.time, points, i, n)
          /\ \A o \in SensorIds \ {s} :
               Recorded(sensor_to_previous_subdivision_time_', o)
                 = Recorded(sensor_to_previous_subdivision_time_, o)
  ]_vars

\* C1 witness: of the two subdivisions of a scan one is handed on and one is
\* skipped, and the subdivision handed on is earlier than the time recorded
\* for the other sensor
C1_Witness ==
  /\ LaserScanHandled /\ ~aborted
  /\ num_subdivisions_per_laser_scan_ = 2
  /\ Len(op.points) = 2
  /\ Len(rangefinder_calls) = 1
  /\ op.sensor_id = "scan_a"
  /\ "scan_b" \in DOMAIN sensor_to_previous_subdivision_time_
  /\ rangefinder_calls[1].time < sensor_to_previous_subdivision_time_["scan_b"]

\* C2: for a non-empty scan whose last point has relative time <= 0 no CHECK
\* fails, and every subdivision handed to HandleRangefinder has the scan time
\* plus the (converted) original relative time of its last point as its time,
\* relative time 0 at its last point, and at every point the original time
\* minus the original time of its last point.
C2_TimesRebasedToSubdivisionEnd ==
  (/\ LaserScanHandled
   /\ op.points # <<>>
   /\ op.points[Len(op.points)].t <= 0)
  => /\ ~aborted
     /\ \A k \in 1..Len(rangefinder_calls) :
          LET ranges == rangefinder_calls[k].ranges
              last == op.points[ranges[Len(ranges)].p]
          IN /\ rangefinder_calls[k].time = op.time + FromSeconds(last.t)
             /\ ranges[Len(ranges)].t = 0
             /\ \A j \in 1..Len(ranges) :
                  ranges[j].t = op.points[ranges[j].p].t - last.t
             /\ \A j \in 1..Len(ranges), h \in 1..Len(ranges) :
                  ranges[j].t - ranges[h].t
                    = op.points[ranges[j].p].t - op.points[ranges[h].p].t

\* C2 witness: the second subdivision of a scan has two points and ends
\* before the scan time, at a time that is not a whole number of ticks
C2_Witness ==
  /\ LaserScanHandled /\ ~aborted
  /\ \E k \in 1..Len(rangefinder_calls) :
       LET ranges == rangefinder_calls[k].ranges
           last == op.points[ranges[Len(ranges)].p]
       IN /\ Len(ranges) = 2
          /\ ranges[1].p = 2
          /\ last.t = -1
          /\ ranges[1].t = -1
          /\ rangefinder_calls[k].time = op.time

\* C3: the n subdivisions of a scan are the index ranges
\* [size*i/n, size*(i+1)/n), which follow one another from 0 to size; each
\* HandleRangefinder call carries the points of one non-empty range, in order,
\* later calls carry later ranges; at most min(n, size) calls are made; the
\* map changes only by the calls made; an empty scan makes no call, fails no
\* CHECK and changes no state.
C3_SubdivisionsAreContiguousSlices ==
  [][LaserScanRuns =>
       LET points == op'.points
           size == Len(points)
           n == num_subdivisions_per_laser_scan_
           calls == rangefinder_calls'
           s == op'.sensor_id
           Min == IF n < size THEN n ELSE size
       IN /\ StartIndex(size, 0, n) = 0
          /\ EndIndex(size, n - 1, n) = size
          /\ \A i \in 0..(n - 1) :
               /\ StartIndex(size, i, n) <= EndIndex(size, i, n)
               /\ i < n - 1 => EndIndex(size, i, n) = StartIndex(size, i + 1, n)
          /\ \A k \in 1..size :
               Cardinality({i \in 0..(n - 1) :
                              /\ StartIndex(size, i, n) < k
                              /\ k <= EndIndex(size, i, n)}) = 1
          /\ \A k \in 1..Len(calls) :
               /\ calls[k].ranges # <<>>
               /\ \E i \in NonEmptySlices(points, n) :
                    HandsSlice(calls[k], points, i, n)
               /\ k < Len(calls) =>
                    calls[k].ranges[Len(calls[k].ranges)].p < calls[k + 1].ranges[1].p
          /\ Len(calls) <= Min
          /\ calls = <<>> =>
               sensor_to_previous_subdivision_time_'
                 = sensor_to_previous_subdivision_time_
          /\ calls # <<>> =>
               Recorded(sensor_to_previous_subdivision_time_', s)
                 = Some(calls[Len(calls)].time)
          /\ size = 0 => /\ calls = <<>>
                         /\ added_sensor_data' = <<>>
                         /\ ~aborted'
                         /\ bridge_state' = bridge_state
  ]_vars

\* C3 witness: a scan of two points under three subdivisions, the first of
\* them empty, hands on two subdivisions of one point each
C3_Witness ==
  /\ LaserScanHandled /\ ~aborted
  /\ num_subdivisions_per_laser_scan_ = 3
  /\ Len(op.points) = 2
  /\ Len(rangefinder_calls) = 2
  /\ rangefinder_calls[1].ranges[1].p = 1
  /\ rangefinder_calls[2].ranges[1].p = 2

----------------------------------------------------------------------------
\* the lookups that returned a transform
Resolved == {k \in 1..Len(lookups) : lookups[k].result # Null}

\* the k-th lookup that returned a transform
NthResolved(j) ==
  CHOOSE k \in Resolved : Cardinality({m \in Resolved : m < k}) = j - 1

\* one AddSensorData call, with the caller's sensor_id and the time looked
\* up, for each lookup that returned a transform, and no other
OneRecordPerResolvedLookup ==
  /\ Len(added_sensor_data) = Cardinality(Resolved)
  /\ \A j \in 1..Len(added_sensor_data) :
       /\ added_sensor_data[j].sensor_id = op.sensor_id
       /\ added_sensor_data[j].data.time = lookups[NthResolved(j)].time

OdometryForwarding ==
  op.name = "HandleOdometryMessage" =>
    /\ Len(lookups) = 1
    /\ lookups[1].time = FromRos(op.msg.stamp)
    /\ OneRecordPerResolvedLookup

\* every HandleRangefinder call looks its frame up once, at its time
RangefinderForwarding ==
  op.name \in {"HandleLaserScan", "HandlePointCloud2Message"} =>
    /\ Len(lookups) = Len(rangefinder_calls)
    /\ \A k \in 1..Len(lookups) :
         /\ lookups[k].time = rangefinder_calls[k].time
         /\ rangefinder_calls[k].sensor_id = op.sensor_id
    /\ OneRecordPerResolvedLookup
    /\ \A j \in 1..Len(added_sensor_data) :
         added_sensor_data[j].data.ranges
           = rangefinder_calls[NthResolved(j)].ranges

NoLookupForwarding ==
  op.name \in {"HandleLandmarkMessage", "HandleNavSatFixMessage"} =>
    /\ lookups = <<>>
    /\ Len(added_sensor_data) = 1
    /\ added_sensor_data[1].sensor_id = op.sensor_id
    /\ added_sensor_data[1].data.time = FromRos(op.msg.stamp)

ValidCovariances ==
  /\ op.msg.linear_acceleration_covariance0 # -1
  /\ op.msg.angular_velocity_covariance0 # -1

\* C4 as stated: also an IMU message with valid covariances is forwarded
\* exactly once whenever the lookup returns a transform.
C4_Original ==
  /\ OdometryForwarding
  /\ RangefinderForwarding
  /\ NoLookupForwarding
  /\ (op.name = "HandleImuMessage" /\ ValidCovariances) =>
       /\ Len(lookups) = 1
       /\ lookups[1].time = FromRos(op.msg.stamp)
       /\ OneRecordPerResolvedLookup

\* C4 (amended): HandleOdometryMessage and HandleRangefinder call
\* AddSensorData exactly once, with the caller's sensor_id and the measurement
\* time, if LookupToTracking returns a transform and not at all if it returns
\* null; HandleImuMessage with valid covariances does so if the transform
\* returned has a translation of norm < 1e-5, and not at all if the lookup
\* returns null; HandleLandmarkMessage and HandleNavSatFixMessage do no lookup
\* and call AddSensorData exactly once.
C4_ForwardedOnlyWhenFrameResolves ==
  /\ OdometryForwarding
  /\ RangefinderForwarding
  /\ NoLookupForwarding
  /\ (op.name = "HandleImuMessage" /\ ValidCovariances) =>
       /\ Len(lookups) = 1
       /\ lookups[1].time = FromRos(op.msg.stamp)
       /\ lookups[1].result = Null => added_sensor_data = <<>> /\ ~aborted
       /\ lookups[1].result = "colocated" =>
            /\ ~aborted
            /\ OneRecordPerResolvedLookup
            /\ Len(added_sensor_data) = 1

\* C4 witness: of the two subdivisions a laser scan hands on, the frame
\* resolves for the second only, and that one alone is forwarded
C4_Witness ==
  /\ LaserScanHandled
  /\ Len(rangefinder_calls) = 2
  /\ lookups[1].result = Null
  /\ lookups[2].result # Null
  /\ Len(added_sensor_data) = 1
  /\ added_sensor_data[1].data.time = rangefinder_calls[2].time

----------------------------------------------------------------------------
\* C5 as stated: no handler changes the state of the SensorBridge.
C5_Original == [][bridge_state' = bridge_state]_vars

HandlerRuns == op = Idle /\ op' # Idle

\* C5 (amended): the handlers for odometry, landmark, IMU and PointCloud2
\* messages leave the state of the SensorBridge unchanged;
\* HandleNavSatFixMessage changes nothing but ecef_to_local_frame_, and only
\* when that is unset and the message has a fix; the laser scan handlers
\* change nothing but the entry of sensor_to_previous_subdivision_time_ for
\* their own sensor_id.
C5_StateChangesOnlyWhereRecorded ==
  [][HandlerRuns =>
       /\ num_subdivisions_per_laser_scan_' = num_subdivisions_per_laser_scan_
       /\ op'.name \in {"HandleOdometryMessage", "HandleLandmarkMessage",
                        "HandleImuMessage", "HandlePointCloud2Message"} =>
            bridge_state' = bridge_state
       /\ op'.name = "HandleNavSatFixMessage" =>
            /\ sensor_to_previous_subdivision_time_'
                 = sensor_to_previous_subdivision_time_
            /\ ecef_to_local_frame_' # ecef_to_local_frame_ =>
                 /\ ecef_to_local_frame_ = NoValue
                 /\ op'.msg.status # STATUS_NO_FIX
       /\ op'.name = "HandleLaserScan" =>
            /\ ecef_to_local_frame_' = ecef_to_local_frame_
            /\ \A o \in SensorIds \ {op'.sensor_id} :
                 Recorded(sensor_to_previous_subdivision_time_', o)
                   = Recorded(sensor_to_previous_subdivision_time_, o)
  ]_vars

\* C5 witness: a laser scan has just changed the time recorded for its
\* sensor, with a time recorded for the other sensor and the local frame set
C5_Witness ==
  /\ LaserScanHandled
  /\ rangefinder_calls # <<>>
  /\ DOMAIN sensor_to_previous_subdivision_time_ = SensorIds
  /\ handed_time[op.sensor_id] = Some(sensor_to_previous_subdivision_time_[op.sensor_id])
  /\ ecef_to_local_frame_ # NoValue

----------------------------------------------------------------------------
\* C6: an IMU message with linear_acceleration_covariance[0] = -1 or
\* angular_velocity_covariance[0] = -1 fails a CHECK before any lookup is made,
\* whatever the lookup would return; one whose transform has a translation of
\* norm >= 1e-5 fails a CHECK; in each case AddSensorData is not called.
C6_ImuWithoutMeasurementsNeverForwarded ==
  op.name = "HandleImuMessage" =>
    /\ ~ValidCovariances =>
         /\ aborted
         /\ lookups = <<>>
         /\ added_sensor_data = <<>>
    /\ (ValidCovariances /\ op.lookup = "displaced") =>
         /\ aborted
         /\ added_sensor_data = <<>>
    /\ aborted => added_sensor_data = <<>>

\* C6 witness: the angular velocity is missing and the lookup would have
\* returned null
C6_Witness ==
  /\ op.name = "HandleImuMessage"
  /\ op.msg.linear_acceleration_covariance0 # -1
  /\ op.msg.angular_velocity_covariance0 = -1
  /\ op.lookup = Null
  /\ aborted

----------------------------------------------------------------------------
TimedSensorTypes == {"ouster", "velodyne", "robosense"}

\* C7: for a cloud with a last point, HandlePointCloud2Message hands
\* HandleRangefinder the points not flagged NaN or infinite, in their order;
\* for ouster and velodyne at the header stamp plus the last point's relative
\* time, for the other sensor types at the header stamp; for ouster, velodyne
\* and robosense each point with its time minus the last point's time, for
\* any other sensor type each point with time 0; a record forwarded to the
\* trajectory builder carries that time and those points.
C7_PointCloudTimedRelativeToLastPoint ==
  (/\ op.name = "HandlePointCloud2Message"
   /\ (op.msg.points # <<>> \/ op.sensor_type \notin TimedSensorTypes))
  => LET cloud == op.msg.points
         kept == {k \in 1..Len(cloud) : cloud[k].flag = "finite"}
     IN /\ ~aborted
        /\ Len(rangefinder_calls) = 1
        /\ LET call == rangefinder_calls[1]
               ranges == call.ranges
           IN /\ call.time =
                    IF op.sensor_type \in {"ouster", "velodyne"}
                    THEN FromRos(op.msg.stamp) + FromSeconds(cloud[Len(cloud)].t)
                    ELSE FromRos(op.msg.stamp)
              /\ {ranges[j].p : j \in 1..Len(ranges)} = kept
              /\ Len(ranges) = Cardinality(kept)
              /\ \A j \in 1..(Len(ranges) - 1) : ranges[j].p < ranges[j + 1].p
              /\ \A j \in 1..Len(ranges) :
                   ranges[j].t =
                     IF op.sensor_type \in TimedSensorTypes
                     THEN cloud[ranges[j].p].t - cloud[Len(cloud)].t
                     ELSE 0
              /\ \A j \in 1..Len(added_sensor_data) :
                   /\ added_sensor_data[j].data.time = call.time
                   /\ added_sensor_data[j].data.ranges = ranges

\* C7 witness: a robosense cloud whose last point is dropped and is later
\* than the point kept, by a whole tick
C7_Witness ==
  /\ op.name = "HandlePointCloud2Message"
  /\ op.sensor_type = "robosense"
  /\ Len(op.msg.points) = 2
  /\ op.msg.points[2].flag = "nan"
  /\ op.msg.points[2].t = UnitsPerTick
  /\ Len(rangefinder_calls) = 1
  /\ Len(rangefinder_calls[1].ranges) = 1
  /\ rangefinder_calls[1].ranges[1].t < 0
  /\ rangefinder_calls[1].time = FromRos(op.msg.stamp)

----------------------------------------------------------------------------
NavSatFixRuns == op = Idle /\ op'.name = "HandleNavSatFixMessage"

\* C8: ecef_to_local_frame_ is unset until the first NavSatFix message with a
\* fix, is then the frame of that message's latitude and longitude, and no
\* step changes it once it is set; a STATUS_NO_FIX message leaves it as it is
\* and forwards a FixedFramePoseData without a pose; a message with a fix
\* forwards one with a pose in the frame of the first fix.
C8_LocalFrameFixedOnce ==
  [][/\ ecef_to_local_frame_ # NoValue =>
          ecef_to_local_frame_' = ecef_to_local_frame_
     /\ ecef_to_local_frame_' =
          IF first_fix' = NoValue
          THEN NoValue
          ELSE Some(ComputeLocalFrameFromLatLong(first_fix'[1].lat,
                                                 first_fix'[1].long))
     /\ NavSatFixRuns =>
          /\ Len(added_sensor_data') = 1
          /\ added_sensor_data'[1].data.kind = "FixedFramePoseData"
          /\ IF op'.msg.status = STATUS_NO_FIX
             THEN /\ ecef_to_local_frame_' = ecef_to_local_frame_
                  /\ added_sensor_data'[1].data.pose = NoValue
             ELSE /\ added_sensor_data'[1].data.pose # NoValue
                  /\ added_sensor_data'[1].data.pose[1].frame =
                       ComputeLocalFrameFromLatLong(first_fix'[1].lat,
                                                    first_fix'[1].long)
                  /\ added_sensor_data'[1].data.pose[1].ecef =
                       LatLongAltToEcef(op'.msg.latitude, op'.msg.longitude,
                                        op'.msg.altitude)
  ]_vars

\* C8 witness: a message with a fix at another latitude than the first fix
\* is forwarded with a pose in the frame of the first fix
C8_Witness ==
  /\ op.name = "HandleNavSatFixMessage"
  /\ op.msg.status # STATUS_NO_FIX
  /\ first_fix # NoValue
  /\ op.msg.latitude # first_fix[1].lat
  /\ added_sensor_data[1].data.pose[1].frame.lat = first_fix[1].lat
  /\ ecef_to_local_frame_ = Some(added_sensor_data[1].data.pose[1].frame)
====
